---- MODULE Spec2Model ----
(***************************************************************************)
(* Model of zbx_gh.py: the Zabbix metrics export run (main) with its       *)
(* redaction policy (should_redact), the JSON and CSV documents it writes  *)
(* and the git commands it issues.                                         *)
(*                                                                         *)
(* Python strings are modelled as sequences of one-character strings, so   *)
(* that lower-casing, substring search, JSON escaping and CSV quoting are  *)
(* computed character by character.                                        *)
(***************************************************************************)
EXTENDS Integers, Sequences, FiniteSets, TLC

\* ------------------------------------------------------------------------
\* Bounds of the model
\* ------------------------------------------------------------------------

\* Longest host list the API returns in a modelled run.
MaxHosts == 2

\* Most fragments a metric name handed to should_redact is built from.
MaxFrags == 2

\* ------------------------------------------------------------------------
\* Strings
\* ------------------------------------------------------------------------

\* str.lower() on one character (ASCII letters; other characters unchanged).
LowerChar(c) ==
    CASE c = "A" -> "a" [] c = "B" -> "b" [] c = "C" -> "c" [] c = "D" -> "d"
      [] c = "E" -> "e" [] c = "F" -> "f" [] c = "G" -> "g" [] c = "H" -> "h"
      [] c = "I" -> "i" [] c = "J" -> "j" [] c = "K" -> "k" [] c = "L" -> "l"
      [] c = "M" -> "m" [] c = "N" -> "n" [] c = "O" -> "o" [] c = "P" -> "p"
      [] c = "Q" -> "q" [] c = "R" -> "r" [] c = "S" -> "s" [] c = "T" -> "t"
      [] c = "U" -> "u" [] c = "V" -> "v" [] c = "W" -> "w" [] c = "X" -> "x"
      [] c = "Y" -> "y" [] c = "Z" -> "z" [] OTHER -> c

\* metric_name.lower()
Lower(s) == [i \in 1..Len(s) |-> LowerChar(s[i])]

\* A variant of the search that accepts only the whole string.
StrEquals(needle, hay) == needle = hay

\* Python's  needle in hay  on strings: needle occurs at some position of hay.
StrIn(needle, hay) ==
    \E i \in 1..(Len(hay) - Len(needle) + 1) :
        \A k \in 1..Len(needle) : hay[i + k - 1] = needle[k]

\* ------------------------------------------------------------------------
\* Redaction policy
\* ------------------------------------------------------------------------

REDACTED_FIELDS ==
    { <<"s", "y", "s", "t", "e", "m", " ", "n", "a", "m", "e">>, <<"s", "y", "s", "t", "e", "m", " ", "d", "e", "s", "c", "r", "i", "p", "t", "i", "o", "n">>, <<"h", "o", "s", "t", " ", "n", "a", "m", "e">>,
      <<"i", "p", " ", "a", "d", "d", "r", "e", "s", "s">>, <<"m", "a", "c", " ", "a", "d", "d", "r", "e", "s", "s">>, <<"s", "e", "r", "i", "a", "l", " ", "n", "u", "m", "b", "e", "r">>, <<"r", "e", "d", "a", "c", "t", "e", "d">> }

should_redact(metric_name) ==
    LET metric_lower == Lower(metric_name)
    IN  \E field \in REDACTED_FIELDS : StrIn(field, metric_lower)

\* ------------------------------------------------------------------------
\* Record mapper (the body of the item loop of main)
\* ------------------------------------------------------------------------

HostMarker == <<"[", "r", "e", "d", "a", "c", "t", "e", "d", "]">>

RedactedMarker == <<"R", "E", "D", "A", "C", "T", "E", "D">>

\* d[k] = v on a Python dict (the key is added when absent).
SetKey(d, k, v) == [x \in DOMAIN d \cup {k} |-> IF x = k THEN v ELSE d[x]]

\* A variant of the host field that copies the host's name (KeyError aside).
RecordHostName(host) == IF "host" \in DOMAIN host THEN host["host"] ELSE <<>>

\* "host": "[redacted]"
RecordHost(host) == HostMarker

\* A variant of the timestamp field that copies the item's own lastclock.
RecordTimestampOfItem(item, ts) ==
    IF "lastclock" \in DOMAIN item THEN item["lastclock"] ELSE ts

\* "timestamp": timestamp
RecordTimestamp(item, ts) == ts

\* A variant of the redaction that replaces the name only.
RedactNameOnly(item) ==
    SetKey(SetKey(item, "name", RedactedMarker), "lastvalue",
           IF "lastvalue" \in DOMAIN item THEN item["lastvalue"] ELSE <<>>)

\* item["name"] = "REDACTED"; item["lastvalue"] = "REDACTED"
Redact(item) ==
    SetKey(SetKey(item, "name", RedactedMarker), "lastvalue", RedactedMarker)

\* The keys of item that one iteration of the item loop reads, in the order it
\* reads them; the first absent one raises KeyError.
MapItemRaises(item) ==
    \/ "name" \notin DOMAIN item
    \/ (~should_redact(item["name"]) /\ "lastvalue" \notin DOMAIN item)
    \/ "units" \notin DOMAIN item

\* One iteration of the item loop for an item that raises nothing: the record
\* appended to filtered_metrics.
MapItem(host, item, ts) ==
    LET it == IF should_redact(item["name"]) THEN Redact(item) ELSE item
    IN  [host      |-> RecordHost(host),
         metric    |-> it["name"],
         value     |-> it["lastvalue"],
         units     |-> it["units"],
         timestamp |-> RecordTimestamp(item, ts)]

\* The item loop over one host's items: the records appended, until the loop
\* ends or an item raises.
RECURSIVE MapItems(_, _, _, _)
MapItems(host, items, ts, k) ==
    IF k > Len(items) THEN [records |-> <<>>, raised |-> FALSE]
    ELSE IF MapItemRaises(items[k]) THEN [records |-> <<>>, raised |-> TRUE]
    ELSE LET rest == MapItems(host, items, ts, k + 1)
         IN  [records |-> <<MapItem(host, items[k], ts)>> \o rest.records,
              raised  |-> rest.raised]

\* ------------------------------------------------------------------------
\* Snapshot serializer: json.dump(filtered_metrics, f, indent=2)
\* ------------------------------------------------------------------------

fieldnames == <<"host", "metric", "value", "units", "timestamp">>

\* The characters of a key of the record.
KeyChars(k) ==
    CASE k = "host" -> <<"h", "o", "s", "t">> [] k = "metric" -> <<"m", "e", "t", "r", "i", "c">>
      [] k = "value" -> <<"v", "a", "l", "u", "e">> [] k = "units" -> <<"u", "n", "i", "t", "s">>
      [] k = "timestamp" -> <<"t", "i", "m", "e", "s", "t", "a", "m", "p">>

\* The JSON escape of one character of a string.
JsonEscapeChar(c) ==
    CASE c = "\"" -> <<"\\", "\"">> [] c = "\\" -> <<"\\", "\\">> [] c = "\n" -> <<"\\", "n">>
      [] c = "\r" -> <<"\\", "r">> [] c = "\t" -> <<"\\", "t">> [] OTHER -> <<c>>

\* The escapes of the characters lo..hi of s, concatenated (by halves).
RECURSIVE JsonEscape(_, _, _)
JsonEscape(s, lo, hi) ==
    IF lo > hi THEN <<>>
    ELSE IF lo = hi THEN JsonEscapeChar(s[lo])
    ELSE JsonEscape(s, lo, (lo + hi) \div 2)
             \o JsonEscape(s, ((lo + hi) \div 2) + 1, hi)

JsonString(s) == <<"\"">> \o JsonEscape(s, 1, Len(s)) \o <<"\"">>

\* The members of one object, one per line, in the dict's insertion order.
RECURSIVE JsonMembers(_, _)
JsonMembers(rec, j) ==
    <<" ", " ", " ", " ">> \o JsonString(KeyChars(fieldnames[j])) \o <<":", " ">>
        \o JsonString(rec[fieldnames[j]])
        \o (IF j < Len(fieldnames)
            THEN <<",", "\n">> \o JsonMembers(rec, j + 1) ELSE <<"\n">>)

JsonObject(rec) == <<" ", " ", "{", "\n">> \o JsonMembers(rec, 1) \o <<" ", " ", "}">>

RECURSIVE JsonObjects(_, _)
JsonObjects(recs, k) ==
    JsonObject(recs[k])
        \o (IF k < Len(recs) THEN <<",", "\n">> \o JsonObjects(recs, k + 1) ELSE <<"\n">>)

json_dump(recs) ==
    IF recs = <<>> THEN <<"[", "]">> ELSE <<"[", "\n">> \o JsonObjects(recs, 1) \o <<"]">>

\* ------------------------------------------------------------------------
\* Snapshot serializer: csv.DictWriter(...).writeheader(); writerows(...)
\* ------------------------------------------------------------------------

QuotedChars == {",", "\"", "\r", "\n"}

\* A variant of the quoting rule that never quotes.
CsvNeverQuote(s) == FALSE

\* QUOTE_MINIMAL: a field is quoted when it holds the delimiter, the quote
\* character or a character of the line terminator.
CsvNeedsQuote(s) == \E i \in 1..Len(s) : s[i] \in QuotedChars

\* The characters lo..hi of s with every quote character doubled (by halves).
RECURSIVE CsvDoubleQuotes(_, _, _)
CsvDoubleQuotes(s, lo, hi) ==
    IF lo > hi THEN <<>>
    ELSE IF lo = hi THEN (IF s[lo] = "\"" THEN <<"\"", "\"">> ELSE <<s[lo]>>)
    ELSE CsvDoubleQuotes(s, lo, (lo + hi) \div 2)
             \o CsvDoubleQuotes(s, ((lo + hi) \div 2) + 1, hi)

CsvField(s) ==
    IF CsvNeedsQuote(s) THEN <<"\"">> \o CsvDoubleQuotes(s, 1, Len(s)) \o <<"\"">> ELSE s

RECURSIVE CsvJoin(_, _)
CsvJoin(fields, j) ==
    CsvField(fields[j])
        \o (IF j < Len(fields) THEN <<",">> \o CsvJoin(fields, j + 1) ELSE <<"\r", "\n">>)

writeheader == CsvJoin([j \in 1..Len(fieldnames) |-> KeyChars(fieldnames[j])], 1)

writerow(rec) == CsvJoin([j \in 1..Len(fieldnames) |-> rec[fieldnames[j]]], 1)

RECURSIVE writerows(_, _)
writerows(recs, k) ==
    IF k > Len(recs) THEN <<>> ELSE writerow(recs[k]) \o writerows(recs, k + 1)

csv_dump(recs) == writeheader \o writerows(recs, 1)

\* ------------------------------------------------------------------------
\* Reading the documents back: json.load and csv.DictReader.  A record read
\* back is the sequence of its <<key, value>> pairs, in document order.
\* ------------------------------------------------------------------------

JsonWs == {" ", "\n", "\r", "\t"}

\* The character an escape \c stands for, or "" when it is no escape.
JsonUnescape(c) ==
    CASE c = "\"" -> "\"" [] c = "\\" -> "\\" [] c = "/" -> "/"
      [] c = "n" -> "\n" [] c = "r" -> "\r" [] c = "t" -> "\t" [] OTHER -> ""

JsonStart == [mode |-> "start", cur |-> <<>>, key |-> <<>>, members |-> <<>>, objs |-> <<>>]

\* One character read by a JSON reader of an array of objects whose members
\* are strings.  The modes say what the reader expects next.
JsonStep(st, c) ==
    LET to(m) == [st EXCEPT !.mode = m]
        ws == c \in JsonWs
        m == st.mode
    IN  CASE m \in {"key", "val"} ->
               IF c = "\\" THEN to(IF m = "key" THEN "key_esc" ELSE "val_esc")
               ELSE IF c \in {"\n", "\r", "\t"} THEN to("error")
               ELSE IF c /= "\"" THEN [st EXCEPT !.cur = Append(@, c)]
               ELSE IF m = "key"
                    THEN [st EXCEPT !.mode = "colon", !.key = st.cur, !.cur = <<>>]
               ELSE [st EXCEPT !.mode = "obj_next", !.cur = <<>>,
                               !.members = Append(@, <<st.key, st.cur>>)]
          [] m \in {"key_esc", "val_esc"} ->
               IF JsonUnescape(c) = "" THEN to("error")
               ELSE [st EXCEPT !.mode = IF m = "key_esc" THEN "key" ELSE "val",
                               !.cur = Append(@, JsonUnescape(c))]
          [] ws /\ m /= "error" -> st
          [] m = "start" /\ c = "[" -> to("arr_first")
          [] m \in {"arr_first", "arr_item"} /\ c = "{" -> to("obj_first")
          [] m \in {"arr_first", "arr_next"} /\ c = "]" -> to("end")
          [] m = "arr_next" /\ c = "," -> to("arr_item")
          [] m \in {"obj_first", "obj_key"} /\ c = "\"" -> to("key")
          [] m \in {"obj_first", "obj_next"} /\ c = "}" ->
               [st EXCEPT !.mode = "arr_next", !.members = <<>>,
                          !.objs = Append(@, st.members)]
          [] m = "obj_next" /\ c = "," -> to("obj_key")
          [] m = "colon" /\ c = ":" -> to("val_start")
          [] m = "val_start" /\ c = "\"" -> to("val")
          [] OTHER -> to("error")

\* The reader's state after the characters lo..hi of doc (by halves).
RECURSIVE JsonRun(_, _, _, _)
JsonRun(st, doc, lo, hi) ==
    IF st.mode = "error" \/ lo > hi THEN st
    ELSE IF lo = hi THEN JsonStep(st, doc[lo])
    ELSE JsonRun(JsonRun(st, doc, lo, (lo + hi) \div 2), doc, ((lo + hi) \div 2) + 1, hi)

\* json.load of a document holding an array of objects of strings.
json_load(doc) ==
    LET st == JsonRun(JsonStart, doc, 1, Len(doc))
    IN  [ok |-> st.mode = "end", val |-> st.objs]

CsvStart == [mode |-> "start_record", fld |-> <<>>, row |-> <<>>, rows |-> <<>>]

\* One character read by csv.reader (excel dialect, the file opened with
\* newline="").  Mode "eat_lf" follows a "\r" that ended a row.
CsvStep(st, c) ==
    LET eol == c \in {"\r", "\n"}
        m0 == IF st.mode = "eat_lf" THEN "start_record" ELSE st.mode
        m  == IF m0 = "start_record" /\ ~eol THEN "start_field" ELSE m0
        after == IF c = "\r" THEN "eat_lf" ELSE "start_record"
        add == [st EXCEPT !.fld = Append(@, c)]
    IN  IF st.mode = "eat_lf" /\ c = "\n" THEN [st EXCEPT !.mode = "start_record"]
        ELSE IF m = "start_record" THEN [st EXCEPT !.mode = after]
        ELSE IF m = "in_quoted"
             THEN IF c = "\"" THEN [st EXCEPT !.mode = "quote_in_quoted"]
                  ELSE [add EXCEPT !.mode = "in_quoted"]
        ELSE IF eol
             THEN [mode |-> after, fld |-> <<>>, row |-> <<>>,
                   rows |-> Append(st.rows, Append(st.row, st.fld))]
        ELSE IF c = ","
             THEN [st EXCEPT !.mode = "start_field", !.fld = <<>>,
                             !.row = Append(@, st.fld)]
        ELSE IF c = "\"" /\ m = "start_field" THEN [st EXCEPT !.mode = "in_quoted"]
        ELSE IF c = "\"" /\ m = "quote_in_quoted" THEN [add EXCEPT !.mode = "in_quoted"]
        ELSE [add EXCEPT !.mode = "in_field"]

\* The reader's state after the characters lo..hi of doc (by halves).
RECURSIVE CsvRun(_, _, _, _)
CsvRun(st, doc, lo, hi) ==
    IF st.mode = "error" \/ lo > hi THEN st
    ELSE IF lo = hi THEN CsvStep(st, doc[lo])
    ELSE CsvRun(CsvRun(st, doc, lo, (lo + hi) \div 2), doc, ((lo + hi) \div 2) + 1, hi)

\* The rows csv.reader yields for a document (empty lines yield none).
CsvRead(doc) ==
    LET st == CsvRun(CsvStart, doc, 1, Len(doc))
    IN  IF st.mode \in {"start_record", "eat_lf"} THEN st.rows
        ELSE Append(st.rows, Append(st.row, st.fld))

\* csv.DictReader: the first row names the columns; every later row is read as
\* the pairs of column name and field (a row of another length is not a record
\* of the snapshot; ok is then FALSE).
csv_load(doc) ==
    LET rows == CsvRead(doc)
    IN  IF rows = <<>> THEN [ok |-> FALSE, val |-> <<>>]
        ELSE LET header == rows[1]
             IN  [ok  |-> \A k \in 2..Len(rows) : Len(rows[k]) = Len(header),
                  val |-> [k \in 1..(Len(rows) - 1) |->
                             [j \in 1..Len(rows[k + 1]) |->
                                <<IF j <= Len(header) THEN header[j] ELSE <<>>,
                                  rows[k + 1][j]>>]]]

\* A record of the snapshot as its <<key, value>> pairs, in key order.
Pairs(rec) == [j \in 1..Len(fieldnames) |-> <<KeyChars(fieldnames[j]), rec[fieldnames[j]]>>]

PairsOfAll(recs) == [k \in 1..Len(recs) |-> Pairs(recs[k])]

\* ------------------------------------------------------------------------
\* Wall clock, formatting and paths
\* ------------------------------------------------------------------------

\* The instants datetime.now() may return, in time order.
Times ==
    << [year |-> 2024, month |-> 12, day |-> 31, hour |-> 23, minute |-> 59],
       [year |-> 2025, month |-> 1, day |-> 1, hour |-> 0, minute |-> 5] >>

Digit(n) == <<"0", "1", "2", "3", "4", "5", "6", "7", "8", "9">>[n + 1]

Pad2(n) == <<Digit((n \div 10) % 10), Digit(n % 10)>>

Pad4(n) == Pad2(n \div 100) \o Pad2(n % 100)

\* str(n) of a non-negative int, as an f-string formats it.
RECURSIVE IntToStr(_)
IntToStr(n) == IF n < 10 THEN <<Digit(n)>> ELSE IntToStr(n \div 10) \o <<Digit(n % 10)>>

\* datetime.strftime("%Y-%m-%d_%H-%M")
StrftimeStamp(t) ==
    Pad4(t.year) \o <<"-">> \o Pad2(t.month) \o <<"-">> \o Pad2(t.day)
        \o <<"_">> \o Pad2(t.hour) \o <<"-">> \o Pad2(t.minute)

\* datetime.strftime("%Y-%m-%d %H:%M UTC")
StrftimeReadme(t) ==
    Pad4(t.year) \o <<"-">> \o Pad2(t.month) \o <<"-">> \o Pad2(t.day)
        \o <<" ">> \o Pad2(t.hour) \o <<":">> \o Pad2(t.minute) \o <<" ", "U", "T", "C">>

\* The lines of the README that depend on the run, under its title.
generate_readme(metrics_count, t) ==
    <<"#", " ", "Z", "a", "b", "b", "i", "x", " ", "M", "e", "t", "r", "i", "c", "s", " ", "A", "r", "c", "h", "i", "v", "e", "\n">>
        \o <<"-", " ", "L", "a", "s", "t", " ", "U", "p", "d", "a", "t", "e", "d", ":", " ">> \o StrftimeReadme(t)
        \o <<"\n", "-", " ", "T", "o", "t", "a", "l", " ", "M", "e", "t", "r", "i", "c", "s", " ", "C", "o", "l", "l", "e", "c", "t", "e", "d", ":", " ">> \o IntToStr(metrics_count)
        \o <<"\n", "-", " ", "U", "p", "d", "a", "t", "e", " ", "F", "r", "e", "q", "u", "e", "n", "c", "y", ":", " ", "E", "v", "e", "r", "y", " ", "3", " ", "h", "o", "u", "r", "s", "\n">>

REPO_PATH == <<"/", "d", "g", "h", "c">>

ReadmeFile == <<"R", "E", "A", "D", "M", "E", ".", "m", "d">>

\* f"data/{timestamp}.json"
JsonFile(ts) == <<"d", "a", "t", "a", "/">> \o ts \o <<".", "j", "s", "o", "n">>

\* f"data/{timestamp}.csv"
CsvFile(ts) == <<"d", "a", "t", "a", "/">> \o ts \o <<".", "c", "s", "v">>

\* The file a path names for a process whose working directory is dir.
Resolve(dir, path) ==
    IF path /= <<>> /\ path[1] = "/" THEN path ELSE dir \o <<"/">> \o path

\* f'git commit -m "Zabbix metrics update: {timestamp}"'
CommitCommand(ts) == <<"g", "i", "t", " ", "c", "o", "m", "m", "i", "t", " ", "-", "m", " ", "\"", "Z", "a", "b", "b", "i", "x", " ", "m", "e", "t", "r", "i", "c", "s", " ", "u", "p", "d", "a", "t", "e", ":", " ">> \o ts \o <<"\"">>

\* f"git add {json_file} {csv_file} README.md"
AddCommand(ts) ==
    <<"g", "i", "t", " ", "a", "d", "d", " ">> \o JsonFile(ts) \o <<" ">> \o CsvFile(ts) \o <<" ">> \o ReadmeFile

PullCommand == <<"g", "i", "t", " ", "p", "u", "l", "l", " ", "-", "-", "r", "e", "b", "a", "s", "e", " ", "o", "r", "i", "g", "i", "n", " ", "m", "a", "i", "n">>

PushCommand == <<"g", "i", "t", " ", "p", "u", "s", "h", " ", "o", "r", "i", "g", "i", "n", " ", "m", "a", "i", "n">>

\* ------------------------------------------------------------------------
\* What the environment may hand to a run
\* ------------------------------------------------------------------------

\* Working directories the script may be started in.
StartDirs == {REPO_PATH, <<"/", "s", "r", "v", "/", "z", "b", "x">>}

\* Hosts the API may list: a plain one, one with an empty name, one whose
\* name holds a sensitive substring, one without a name.
Hosts ==
    { [hostid |-> <<"1", "0", "0", "8", "4">>, host |-> <<"s", "r", "v", "-", "a">>],
      [hostid |-> <<"1", "0", "0", "8", "5">>, host |-> <<>>],
      [hostid |-> <<"1", "0", "0", "8", "6">>, host |-> <<"H", "o", "s", "t", " ", "N", "a", "m", "e", " ", "7">>],
      [hostid |-> <<"1", "0", "0", "8", "7">>] }

\* The lists host.get may return: every host at most once.
HostLists ==
    {hs \in UNION {[1..n -> Hosts] : n \in 0..MaxHosts} :
        \A i, j \in 1..Len(hs) : i /= j => hs[i] /= hs[j]}

ItemHostName ==
    [itemid |-> <<"1">>, name |-> <<"H", "o", "s", "t", " ", "N", "a", "m", "e">>, lastvalue |-> <<"s", "r", "v", "1">>,
     units |-> <<>>, lastclock |-> <<"0">>]

ItemCpu ==
    [itemid |-> <<"2">>, name |-> <<"C", "P", "U", " ", "U", "s", "a", "g", "e">>, lastvalue |-> <<"1", "2", ".", "5">>,
     units |-> <<"%">>, lastclock |-> <<"0">>]

ItemIpPool ==
    [itemid |-> <<"3">>, name |-> <<"I", "P", " ", "A", "d", "d", "r", "e", "s", "s", " ", "P", "o", "o", "l", " ", "U", "s", "a", "g", "e">>, lastvalue |-> <<"4", "1">>,
     units |-> <<"B">>, lastclock |-> <<"1", "7", "1", "6", "2", "8", "5", "6", "0", "0">>]

\* An item whose fields hold the characters the two formats treat specially.
ItemQuoting ==
    [itemid |-> <<"4">>, name |-> <<"L", "o", "a", "d", " ", "\"", "1", "m", "\"", ",", " ", "a", "v", "g">>, lastvalue |-> <<"a", "\\", "b", "\n", "c", "\r">>,
     units |-> <<",">>, lastclock |-> <<"7">>]

\* An item the API returned without units.
ItemNoUnits ==
    [itemid |-> <<"5">>, name |-> <<"U", "p", "t", "i", "m", "e">>, lastvalue |-> <<"8", "6", "4", "0", "0">>, lastclock |-> <<"9">>]

\* A sensitive item the API returned without a last value.
ItemNoValue ==
    [itemid |-> <<"6">>, name |-> <<"C", "h", "a", "s", "s", "i", "s", " ", "S", "e", "r", "i", "a", "l", " ", "N", "u", "m", "b", "e", "r">>, units |-> <<>>, lastclock |-> <<"3">>]

\* Item lists the API may return for a host.
ItemResponses ==
    { <<>>,
      <<ItemHostName, ItemCpu>>,
      <<ItemQuoting, ItemIpPool, ItemNoValue>>,
      <<ItemCpu, ItemNoUnits, ItemIpPool>> }

\* Exit statuses os.system may return for a git command.
ExitStatuses == {0, 256}

\* Fragments the metric names handed to should_redact are built from.
Fragments ==
    { <<"I", "P">>, <<" ">>, <<"A", "d", "d", "r", "e", "s", "s">>, <<"i", "p", " ", "a", "d", "d", "r", "e", "s", "s">>, <<"H", "O", "S", "T">>, <<" ", "N", "a", "m", "e">>, <<"h", "o", "s", "t">>,
      <<"M", "a", "c", " ", " ", "A", "d", "d", "r", "e", "s", "s">>, <<"S", "E", "R", "I", "A", "L", " ", "N", "U", "M", "B", "E", "R">>, <<"S", "y", "s", "t", "e", "m">>, <<" ", "D", "e", "s", "c", "r", "i", "p", "t", "i", "o", "n">>,
      <<"R", "e", "d", "a", "c", "t", "e", "d">>, <<" ", "P", "o", "o", "l", " ", "U", "s", "a", "g", "e">>, <<"C", "P", "U", " ", "U", "s", "a", "g", "e">>, <<" ", "E", "x", "t", "e", "n", "d", "e", "d">>, <<"t", "e", "m", " ", "n", "a", "m", "e">> }

RECURSIVE Join(_, _)
Join(frags, k) == IF k > Len(frags) THEN <<>> ELSE frags[k] \o Join(frags, k + 1)

\* The names the specification gives as examples.
IpAddressPoolUsage == <<"I", "P", " ", "A", "d", "d", "r", "e", "s", "s", " ", "P", "o", "o", "l", " ", "U", "s", "a", "g", "e">>

HostNameExtended == <<"H", "o", "s", "t", " ", "N", "a", "m", "e", " ", "E", "x", "t", "e", "n", "d", "e", "d">>

CpuUsage == <<"C", "P", "U", " ", "U", "s", "a", "g", "e">>

Names ==
    { Join(fr, 1) : fr \in UNION {[1..n -> Fragments] : n \in 0..MaxFrags} }
        \cup {IpAddressPoolUsage, HostNameExtended, CpuUsage}

\* ------------------------------------------------------------------------
\* State
\* ------------------------------------------------------------------------

VARIABLES
    pc,                \* where main is: the next step, "done" or "failed"
    hosts,             \* hosts: the list zabbix_get_hosts() returned
    h,                 \* index in hosts of the host the loop handles next
    timestamp,         \* timestamp: the run's timestamp string
    filtered_metrics,  \* filtered_metrics: the records accumulated so far
    fetched,           \* every <<index in hosts, item>> the API returned so far, in order
    clock,             \* index in Times of the last instant datetime.now() gave
    cwd,               \* the process's working directory
    fs,                \* the files: absolute path -> contents
    log,               \* the run's effects in order: requests, writes, commands
    staged,            \* the files the git add command named, resolved
    publish_ok,        \* whether every git command so far returned status 0
    exit_code,         \* the process's exit code, -1 while it runs
    metric_name,       \* argument of a direct call of should_redact
    redact             \* <<>> before the call, <<its result>> after it

vars ==
    <<pc, hosts, h, timestamp, filtered_metrics, fetched, clock, cwd, fs, log,
      staged, publish_ok, exit_code, metric_name, redact>>

NoFiles == [p \in {} |-> <<>>]

Effect(op, what, ok) == [op |-> op, what |-> what, cwd |-> cwd, ok |-> ok]

\* fs after open(path, "w") and a write of data, from working directory cwd.
WriteFile(path, data) ==
    [p \in DOMAIN fs \cup {Resolve(cwd, path)} |->
        IF p = Resolve(cwd, path) THEN data ELSE fs[p]]

\* What a write that raises part-way leaves in the file: a part of the data.
Truncated(data) == SubSeq(data, 1, Len(data) \div 2)

\* ------------------------------------------------------------------------
\* main, one action per request, file or command
\* ------------------------------------------------------------------------

\* The steps of main after the host loop, in program order.
AfterLoop == "readme"

AfterReadme == "json"

\* A variant of main that goes on to the git commands without the CSV file.
AfterJsonSkipCsv == "chdir"

AfterJson == "csv"

AfterCsv == "chdir"

\* A variant of the handler that goes on to the git commands.
RaiseAndPublish(step) == "chdir"

\* except Exception: print(...); exit(1), for an exception raised in step.
Raise(step) == "failed"

\* The process's exit code once main is at p.
ExitCodeAt(p) == IF p = "failed" THEN 1 ELSE IF p = "done" THEN 0 ELSE -1

\* main up to the host loop: hosts = zabbix_get_hosts(), the timestamp,
\* filtered_metrics = [].
GetHosts ==
    /\ pc = "get_hosts"
    /\ \/ \E hs \in HostLists, k \in clock..Len(Times) :
            /\ hosts' = hs
            /\ clock' = k
            /\ timestamp' = StrftimeStamp(Times[k])
            /\ h' = 1
            /\ pc' = IF hs = <<>> THEN AfterLoop ELSE "items"
            /\ log' = Append(log, Effect("request", <<"h", "o", "s", "t", ".", "g", "e", "t">>, TRUE))
       \/ \* the request raises, or its answer holds no "result"
          /\ pc' = Raise("get_hosts")
          /\ log' = Append(log, Effect("request", <<"h", "o", "s", "t", ".", "g", "e", "t">>, FALSE))
          /\ UNCHANGED <<hosts, h, timestamp, clock>>
    /\ exit_code' = ExitCodeAt(pc')
    /\ UNCHANGED <<filtered_metrics, fetched, cwd, fs, staged, publish_ok, metric_name, redact>>

\* One round of the host loop: zabbix_get_items(host["hostid"]) and the item
\* loop over its result.
HostItems ==
    /\ pc = "items"
    /\ h <= Len(hosts)
    /\ \/ \* host["hostid"] raises KeyError
          /\ "hostid" \notin DOMAIN hosts[h]
          /\ pc' = Raise("items")
          /\ UNCHANGED <<h, filtered_metrics, fetched, log>>
       \/ \* the request raises, or its answer holds no "result"
          /\ "hostid" \in DOMAIN hosts[h]
          /\ pc' = Raise("items")
          /\ log' = Append(log, Effect("request", <<"i", "t", "e", "m", ".", "g", "e", "t">>, FALSE))
          /\ UNCHANGED <<h, filtered_metrics, fetched>>
       \/ /\ "hostid" \in DOMAIN hosts[h]
          /\ \E items \in ItemResponses :
               LET r == MapItems(hosts[h], items, timestamp, 1)
               IN  /\ fetched' = fetched \o [k \in 1..Len(items) |-> <<h, items[k]>>]
                   /\ filtered_metrics' = filtered_metrics \o r.records
                   /\ log' = Append(log, Effect("request", <<"i", "t", "e", "m", ".", "g", "e", "t">>, TRUE))
                   /\ IF r.raised
                      THEN pc' = Raise("items") /\ h' = h
                      ELSE /\ h' = h + 1
                           /\ pc' = IF h + 1 > Len(hosts) THEN AfterLoop ELSE "items"
    /\ exit_code' = ExitCodeAt(pc')
    /\ UNCHANGED <<hosts, timestamp, clock, cwd, fs, staged, publish_ok, metric_name, redact>>

\* A step of main that writes data to the file path and goes on to next: the
\* write succeeds, or open (or makedirs) raises, or the write raises part-way.
WriteStep(step, path, data, next) ==
    /\ pc = step
    /\ \/ /\ fs' = WriteFile(path, data)
          /\ pc' = next
          /\ log' = Append(log, Effect("write", Resolve(cwd, path), TRUE))
       \/ /\ pc' = Raise(step)
          /\ log' = Append(log, Effect("write", Resolve(cwd, path), FALSE))
          /\ \/ UNCHANGED fs
             \/ fs' = WriteFile(path, Truncated(data))
    /\ exit_code' = ExitCodeAt(pc')
    /\ UNCHANGED <<hosts, h, timestamp, filtered_metrics, fetched, cwd, staged, publish_ok,
                   metric_name, redact>>

\* readme_content = generate_readme(len(filtered_metrics)); write README.md
WriteReadme ==
    \E k \in clock..Len(Times) :
        /\ WriteStep("readme", ReadmeFile,
                     generate_readme(Len(filtered_metrics), Times[k]), AfterReadme)
        /\ clock' = k

\* os.makedirs("data", exist_ok=True); json.dump(filtered_metrics, f, indent=2)
WriteJson ==
    /\ WriteStep("json", JsonFile(timestamp), json_dump(filtered_metrics), AfterJson)
    /\ UNCHANGED clock

\* csv.DictWriter(f, fieldnames=[...]); writeheader(); writerows(filtered_metrics)
WriteCsv ==
    /\ WriteStep("csv", CsvFile(timestamp), csv_dump(filtered_metrics), AfterCsv)
    /\ UNCHANGED clock

\* os.chdir(REPO_PATH)
Chdir ==
    /\ pc = "chdir"
    /\ \/ /\ cwd' = REPO_PATH
          /\ pc' = "pull"
          /\ log' = Append(log, Effect("chdir", REPO_PATH, TRUE))
       \/ \* no such directory
          /\ pc' = Raise("chdir")
          /\ log' = Append(log, Effect("chdir", REPO_PATH, FALSE))
          /\ UNCHANGED cwd
    /\ exit_code' = ExitCodeAt(pc')
    /\ UNCHANGED <<hosts, h, timestamp, filtered_metrics, fetched, clock, fs, staged, publish_ok,
                   metric_name, redact>>

\* os.system(command): the command runs, its exit status is dropped.
System(step, command, statuses, next) ==
    /\ pc = step
    /\ \E status \in statuses : publish_ok' = (publish_ok /\ status = 0)
    /\ log' = Append(log, Effect("system", command, TRUE))
    /\ pc' = next
    /\ exit_code' = ExitCodeAt(pc')
    /\ UNCHANGED <<hosts, h, timestamp, filtered_metrics, fetched, clock, cwd, fs,
                   metric_name, redact>>

\* The files the paths of the git add command name, in the directory it runs in.
StagedPaths ==
    {Resolve(cwd, JsonFile(timestamp)), Resolve(cwd, CsvFile(timestamp)),
     Resolve(cwd, ReadmeFile)}

GitPull ==
    /\ System("pull", PullCommand, ExitStatuses, "add")
    /\ UNCHANGED staged

\* git add fails when one of its paths names no file.
GitAdd ==
    /\ System("add", AddCommand(timestamp),
              IF StagedPaths \subseteq DOMAIN fs THEN ExitStatuses ELSE ExitStatuses \ {0},
              "commit")
    /\ staged' = StagedPaths

GitCommit ==
    /\ System("commit", CommitCommand(timestamp), ExitStatuses, "push")
    /\ UNCHANGED staged

\* The last command; main returns and the script ends with exit code 0.
GitPush ==
    /\ System("push", PushCommand, ExitStatuses, "done")
    /\ UNCHANGED staged

Init ==
    /\ pc = "get_hosts"
    /\ hosts = <<>>
    /\ h = 0
    /\ timestamp = <<>>
    /\ filtered_metrics = <<>>
    /\ fetched = <<>>
    /\ clock = 1
    /\ cwd \in StartDirs
    /\ fs = NoFiles
    /\ log = <<>>
    /\ staged = {}
    /\ publish_ok = TRUE
    /\ exit_code = -1
    /\ metric_name = <<>>
    /\ redact = <<>>

Next ==
    \/ GetHosts
    \/ HostItems
    \/ WriteReadme
    \/ WriteJson
    \/ WriteCsv
    \/ Chdir
    \/ GitPull
    \/ GitAdd
    \/ GitCommit
    \/ GitPush

Spec == Init /\ [][Next]_vars

\* ------------------------------------------------------------------------
\* should_redact called on its own, on every name of Names
\* ------------------------------------------------------------------------

InitPolicy ==
    /\ Init
    /\ cwd = REPO_PATH

PickName ==
    /\ redact = <<>>
    /\ metric_name = <<>>
    /\ \E n \in Names : metric_name' = n
    /\ redact' = <<>>
    /\ UNCHANGED <<pc, hosts, h, timestamp, filtered_metrics, fetched, clock, cwd, fs,
                   log, staged, publish_ok, exit_code>>

CallShouldRedact ==
    /\ redact = <<>>
    /\ redact' = <<should_redact(metric_name)>>
    /\ UNCHANGED <<pc, hosts, h, timestamp, filtered_metrics, fetched, clock, cwd, fs,
                   log, staged, publish_ok, exit_code, metric_name>>

NextPolicy == PickName \/ CallShouldRedact

SpecPolicy == InitPolicy /\ [][NextPolicy]_vars

\* ------------------------------------------------------------------------
\* Properties
\* ------------------------------------------------------------------------

\* The steps of the run so far, by name and in order (chdir left out): the
\* requests, the files written or attempted, the git commands.
StepName(e) ==
    CASE e.op = "request" -> IF e.what = <<"h", "o", "s", "t", ".", "g", "e", "t">> THEN "hosts" ELSE "items"
      [] e.op = "write" ->
           IF e.what = Resolve(e.cwd, ReadmeFile) THEN "readme"
           ELSE IF e.what = Resolve(e.cwd, JsonFile(timestamp)) THEN "json"
           ELSE IF e.what = Resolve(e.cwd, CsvFile(timestamp)) THEN "csv"
           ELSE "other"
      [] e.op = "system" ->
           IF e.what = PullCommand THEN "pull"
           ELSE IF e.what = AddCommand(timestamp) THEN "add"
           ELSE IF e.what = CommitCommand(timestamp) THEN "commit"
           ELSE IF e.what = PushCommand THEN "push"
           ELSE "other"
      [] OTHER -> "chdir"

Steps == LET NotChdir(n) == n /= "chdir"
         IN  SelectSeq([i \in 1..Len(log) |-> StepName(log[i])], NotChdir)

\* The files this run has written completely: path -> TRUE.
WrittenPaths == {log[i].what : i \in {j \in 1..Len(log) : log[j].op = "write" /\ log[j].ok}}

\* Whether the run has written the file with this step name completely, and
\* the path it wrote it to.
Wrote(name) == \E i \in 1..Len(log) : StepName(log[i]) = name /\ log[i].ok

PathOf(name) == log[CHOOSE i \in 1..Len(log) : StepName(log[i]) = name].what

Published == \E i \in 1..Len(log) : log[i].op = "system"

\* Whether the run's last effect is the completed step with this name.
JustDid(name) ==
    log /= <<>> /\ StepName(log[Len(log)]) = name /\ log[Len(log)].ok

\* The values the records of the snapshot hold in the fields named.
FieldValues(names) ==
    {filtered_metrics[k][f] : k \in 1..Len(filtered_metrics), f \in names}

\* The hosts' ids and names the API returned, the empty string aside.
HostIdentities ==
    UNION {{hosts[i][k] : k \in DOMAIN hosts[i]} : i \in 1..Len(hosts)} \ {<<>>}

\* Whether field holds the name of one of the seven sensitive fields in any
\* letter case, at any position.
UpperOf(c) ==
    CASE c = "a" -> "A" [] c = "b" -> "B" [] c = "c" -> "C" [] c = "d" -> "D"
      [] c = "e" -> "E" [] c = "f" -> "F" [] c = "g" -> "G" [] c = "h" -> "H"
      [] c = "i" -> "I" [] c = "j" -> "J" [] c = "k" -> "K" [] c = "l" -> "L"
      [] c = "m" -> "M" [] c = "n" -> "N" [] c = "o" -> "O" [] c = "p" -> "P"
      [] c = "q" -> "Q" [] c = "r" -> "R" [] c = "s" -> "S" [] c = "t" -> "T"
      [] c = "u" -> "U" [] c = "v" -> "V" [] c = "w" -> "W" [] c = "x" -> "X"
      [] c = "y" -> "Y" [] c = "z" -> "Z" [] OTHER -> c

SevenFields ==
    { <<"s", "y", "s", "t", "e", "m", " ", "n", "a", "m", "e">>, <<"s", "y", "s", "t", "e", "m", " ", "d", "e", "s", "c", "r", "i", "p", "t", "i", "o", "n">>, <<"h", "o", "s", "t", " ", "n", "a", "m", "e">>,
      <<"i", "p", " ", "a", "d", "d", "r", "e", "s", "s">>, <<"m", "a", "c", " ", "a", "d", "d", "r", "e", "s", "s">>, <<"s", "e", "r", "i", "a", "l", " ", "n", "u", "m", "b", "e", "r">>, <<"r", "e", "d", "a", "c", "t", "e", "d">> }

HoldsSensitive(name) ==
    \E f \in SevenFields : \E i \in 0..(Len(name) - Len(f)) :
        \A k \in 1..Len(f) : name[i + k] \in {f[k], UpperOf(f[k])}

\* C1: should_redact(name) is true exactly when the lower-cased name holds one
\* of the seven sensitive entries as a substring; so "IP Address Pool Usage"
\* and "Host Name Extended" are redacted and "CPU Usage" is not.
C1_RedactIffSensitiveSubstring ==
    redact /= <<>> =>
        /\ redact[1] = HoldsSensitive(metric_name)
        /\ metric_name \in {IpAddressPoolUsage, HostNameExtended} => redact[1] = TRUE
        /\ metric_name = CpuUsage => redact[1] = FALSE

C1_Witness ==
    /\ metric_name = IpAddressPoolUsage
    /\ redact = <<TRUE>>

C4_DocumentsAgree ==
    (Wrote("json") /\ JustDid("csv")) =>
        LET json == json_load(fs[PathOf("json")])
            csv  == csv_load(fs[PathOf("csv")])
        IN  /\ json.ok /\ csv.ok
            /\ json.val = csv.val
            /\ json.val = PairsOfAll(filtered_metrics)
            /\ \A k \in 1..Len(json.val) :
                 [j \in 1..Len(json.val[k]) |-> json.val[k][j][1]]
                     = <<<<"h", "o", "s", "t">>, <<"m", "e", "t", "r", "i", "c">>, <<"v", "a", "l", "u", "e">>, <<"u", "n", "i", "t", "s">>, <<"t", "i", "m", "e", "s", "t", "a", "m", "p">>>>
            /\ Len(filtered_metrics) = Len(fetched)
            /\ \A k \in 1..Len(fetched) :
                 /\ filtered_metrics[k] = MapItem(hosts[fetched[k][1]], fetched[k][2], timestamp)
                 /\ k > 1 => fetched[k - 1][1] <= fetched[k][1]
            /\ hosts = <<>> =>
                 /\ filtered_metrics = <<>>
                 /\ fs[PathOf("json")] = <<"[", "]">>
                 /\ fs[PathOf("csv")] = <<"h", "o", "s", "t", ",", "m", "e", "t", "r", "i", "c", ",", "v", "a", "l", "u", "e", ",", "u", "n", "i", "t", "s", ",", "t", "i", "m", "e", "s", "t", "a", "m", "p", "\r", "\n">>
                 /\ StrIn(<<"-", " ", "T", "o", "t", "a", "l", " ", "M", "e", "t", "r", "i", "c", "s", " ", "C", "o", "l", "l", "e", "c", "t", "e", "d", ":", " ", "0", "\n">>, fs[PathOf("readme")])

C4_Witness ==
    /\ Wrote("json") /\ JustDid("csv")
    /\ Len(hosts) = 2
    /\ Len(filtered_metrics) = 5
    /\ fetched[1][2] = ItemQuoting
    /\ fetched[5][2] = ItemCpu

\* C5: every record of the snapshot carries the run's one timestamp, which is
\* not the item's lastclock; the same timestamp names both data files and
\* stands in the commit message.
C5_OneTimestamp ==
    /\ \A k \in 1..Len(filtered_metrics) :
         /\ filtered_metrics[k].timestamp = timestamp
         /\ filtered_metrics[k].timestamp /= fetched[k][2]["lastclock"]
    /\ pc /= "get_hosts" /\ pc /= "failed" =>
         \E i \in 1..Len(Times) : timestamp = StrftimeStamp(Times[i])
    /\ \A i \in 1..Len(log) :
         /\ StepName(log[i]) = "json" =>
              log[i].what = log[i].cwd \o <<"/", "d", "a", "t", "a", "/">> \o timestamp \o <<".", "j", "s", "o", "n">>
         /\ StepName(log[i]) = "csv" =>
              log[i].what = log[i].cwd \o <<"/", "d", "a", "t", "a", "/">> \o timestamp \o <<".", "c", "s", "v">>
         /\ StepName(log[i]) = "commit" =>
              log[i].what = <<"g", "i", "t", " ", "c", "o", "m", "m", "i", "t", " ", "-", "m", " ", "\"", "Z", "a", "b", "b", "i", "x", " ", "m", "e", "t", "r", "i", "c", "s", " ", "u", "p", "d", "a", "t", "e", ":", " ">> \o timestamp \o <<"\"">>
         /\ StepName(log[i]) /= "other"

C5_Witness ==
    /\ pc = "done"
    /\ Len(filtered_metrics) >= 2
    /\ timestamp = <<"2", "0", "2", "5", "-", "0", "1", "-", "0", "1", "_", "0", "0", "-", "0", "5">>
    /\ <<"/", "d", "g", "h", "c", "/", "d", "a", "t", "a", "/", "2", "0", "2", "5", "-", "0", "1", "-", "0", "1", "_", "0", "0", "-", "0", "5", ".", "c", "s", "v">> \in DOMAIN fs

\* C6: an item without units still gets exactly one record, with units "",
\* and the run does not abort.
C6_AbsentUnitsMapToEmpty ==
    \A k \in 1..Len(fetched) :
        "units" \notin DOMAIN fetched[k][2] =>
            /\ pc /= "failed"
            /\ k <= Len(filtered_metrics)
            /\ filtered_metrics[k].units = <<>>

\* C7: the run ends with exit code 0 only when the files were written and
\* pull, add, commit and push all succeeded.
C7_ExitZeroOnlyOnSuccess ==
    exit_code = 0 =>
        /\ Wrote("readme") /\ Wrote("json") /\ Wrote("csv")
        /\ publish_ok

\* The order of steps of a run whose files are written in the order tail.
InOrder(tail) ==
    LET n   == Cardinality({i \in 1..Len(Steps) : Steps[i] = "items"})
        all == <<"hosts">> \o [i \in 1..n |-> "items"] \o tail
    IN  /\ Len(Steps) <= Len(all)
        /\ Steps = SubSeq(all, 1, Len(Steps))
        /\ n <= Len(hosts)
        /\ Len(Steps) > n + 1 => n = Len(hosts)

\* No git command has run before all three files were written completely.
FilesBeforePublisher ==
    Published => Wrote("readme") /\ Wrote("json") /\ Wrote("csv")

\* C8 as claimed: hosts, items per host, the JSON and CSV files, then the
\* summary, then pull, add, commit, push, each at most once.
C8_SummaryAfterDataFiles ==
    /\ InOrder(<<"json", "csv", "readme", "pull", "add", "commit", "push">>)
    /\ FilesBeforePublisher

\* C8 as amended: hosts, items per host, then the summary (README.md), then
\* the JSON and the CSV file, then pull, add, commit, push, each at most once;
\* the summary is written before both data files, and no git command runs
\* before all three files are written.
C8_SummaryBeforeDataFiles ==
    /\ InOrder(<<"readme", "json", "csv", "pull", "add", "commit", "push">>)
    /\ FilesBeforePublisher

C8_Witness ==
    /\ pc = "done"
    /\ Len(hosts) = 2
    /\ Len(Steps) = 10

\* C9: a run that fails while fetching or while writing README.md, the JSON
\* or the CSV document runs no git command and exits with code 1; whenever a
\* git command has run, the JSON and the CSV document were written before it,
\* and when the first one has run they hold the whole snapshot.
C9_NoPublishAfterFailure ==
    /\ (\/ \E i \in 1..Len(log) : log[i].op \in {"request", "write"} /\ ~log[i].ok
        \/ Len(fetched) > Len(filtered_metrics)) =>
           /\ ~Published
           /\ exit_code = 1
    /\ Published => Wrote("json") /\ Wrote("csv")
    /\ JustDid("pull") =>
           /\ fs[PathOf("json")] = json_dump(filtered_metrics)
           /\ fs[PathOf("csv")] = csv_dump(filtered_metrics)

C9_Witness ==
    /\ pc = "failed"
    /\ Wrote("json")
    /\ \E i \in 1..Len(log) :
         /\ StepName(log[i]) = "csv"
         /\ ~log[i].ok
         /\ log[i].what \in DOMAIN fs
         /\ fs[log[i].what] /= csv_dump(filtered_metrics)
    /\ Len(filtered_metrics) >= 2

\* C10: the three paths of the git add command name the three files the run
\* wrote, whatever directory the script was started in.
C10_StagedAreWritten ==
    staged /= {} => staged = WrittenPaths

====
